---- MODULE Spec2Model ----
(***************************************************************************)
(* State machine of the UserManagement React component                     *)
(* (src/src/components/UserManagement.tsx).                                *)
(*                                                                         *)
(* JavaScript values are represented as follows.                           *)
(*   string        a sequence of one-character strings (so that length,    *)
(*                 case folding, regular expressions and substring search  *)
(*                 are computed, not assumed); error messages, which the   *)
(*                 code only tests for emptiness, are TLA+ strings         *)
(*   object        a function from its keys to its values; an absent key   *)
(*                 reads as undefined                                      *)
(*   T | null      the empty sequence for null, <<v>> for a value v        *)
(*   -Infinity     the integer NegInfinity, below every identifier         *)
(*                                                                         *)
(* The events are the component's callbacks.  An event can happen when the *)
(* element that carries the callback is rendered; the two modals are       *)
(* overlays without a focus trap, so the callbacks of the page below them  *)
(* stay reachable and the model lets them interleave.                      *)
(*                                                                         *)
(* The submit event is handleSubmit as written.  The required, type=email  *)
(* and type=url attributes of the inputs (lines 337-349) ask the host for  *)
(* constraint validation before it dispatches the event; the component     *)
(* itself checks nothing but formErrors, and a submit event dispatched on  *)
(* the form reaches handleSubmit with any draft, untouched fields          *)
(* included.                                                               *)
(***************************************************************************)
EXTENDS Integers, Sequences, FiniteSets, TLC

(***************************************************************************)
(* Bounds of the exploration.                                              *)
(***************************************************************************)
MaxUsers == 3
MaxSessions == 3
MaxChanges == 2

(***************************************************************************)
(* Characters and strings.                                                 *)
(***************************************************************************)
UpperLetters ==
  <<"A", "B", "C", "D", "E", "F", "G", "H", "I", "J", "K", "L", "M",
    "N", "O", "P", "Q", "R", "S", "T", "U", "V", "W", "X", "Y", "Z">>

LowerLetters ==
  <<"a", "b", "c", "d", "e", "f", "g", "h", "i", "j", "k", "l", "m",
    "n", "o", "p", "q", "r", "s", "t", "u", "v", "w", "x", "y", "z">>

Range(s) == {s[i] : i \in 1..Len(s)}

Digits == {"0", "1", "2", "3", "4", "5", "6", "7", "8", "9"}

\* \s of a JavaScript regular expression, on the characters the model uses
Whitespace == {" ", "\t"}

\* \w of a JavaScript regular expression
WordChars == Range(UpperLetters) \cup Range(LowerLetters) \cup Digits \cup {"_"}

AllIn(s, class) == \A i \in 1..Len(s) : s[i] \in class

NoneIn(s, class) == \A i \in 1..Len(s) : s[i] \notin class

\* s.slice(from), 0-based as in JavaScript
Slice(s, from) == SubSeq(s, from + 1, Len(s))

StartsWith(s, p) == Len(p) <= Len(s) /\ SubSeq(s, 1, Len(p)) = p

\* String.prototype.toLowerCase
ToLowerChar(c) ==
  IF \E i \in 1..Len(UpperLetters) : UpperLetters[i] = c
  THEN LowerLetters[CHOOSE i \in 1..Len(UpperLetters) : UpperLetters[i] = c]
  ELSE c

toLowerCase(s) == [i \in 1..Len(s) |-> ToLowerChar(s[i])]

\* String.prototype.includes
includes(s, t) ==
  \E i \in 0..(Len(s) - Len(t)) : SubSeq(s, i + 1, i + Len(t)) = t

\* s.replace(/\s+/g, "-"): every maximal run of whitespace becomes one "-"
RECURSIVE ReplaceWhitespaceRuns(_)
ReplaceWhitespaceRuns(s) ==
  IF s = <<>> THEN <<>>
  ELSE IF s[1] \in Whitespace
       THEN IF Len(s) > 1 /\ s[2] \in Whitespace
            THEN ReplaceWhitespaceRuns(Tail(s))
            ELSE <<"-">> \o ReplaceWhitespaceRuns(Tail(s))
       ELSE <<s[1]>> \o ReplaceWhitespaceRuns(Tail(s))

(***************************************************************************)
(* The regular expressions of validateField.  Each is matched by trying    *)
(* every way to cut the string, which is what a backtracking matcher       *)
(* decides.                                                                *)
(***************************************************************************)
\* /^[^\s@]+@[^\s@]+\.[^\s@]+$/
EmailRegexTest(s) ==
  \E i \in 1..Len(s) : \E j \in 1..Len(s) :
    /\ 1 < i /\ i + 1 < j /\ j < Len(s)
    /\ s[i] = "@" /\ s[j] = "."
    /\ NoneIn(SubSeq(s, 1, i - 1), Whitespace \cup {"@"})
    /\ NoneIn(SubSeq(s, i + 1, j - 1), Whitespace \cup {"@"})
    /\ NoneIn(SubSeq(s, j + 1, Len(s)), Whitespace \cup {"@"})

\* /^\+?[\d\s-]{10,}$/
PhoneRegexTest(s) ==
  LET rest == IF s # <<>> /\ s[1] = "+" THEN Tail(s) ELSE s
  IN  Len(rest) >= 10 /\ AllIn(rest, Digits \cup Whitespace \cup {"-"})

\* /^(https?:\/\/)?([\da-z\.-]+)\.([a-z\.]{2,6})([\/\w \.-]*)*\/?$/
WebsiteRestTest(r) ==
  \E i \in 1..Len(r) : \E j \in 1..Len(r) :
    /\ 1 < i /\ i + 2 <= j /\ j <= i + 6
    /\ r[i] = "."
    /\ AllIn(SubSeq(r, 1, i - 1), Digits \cup Range(LowerLetters) \cup {".", "-"})
    /\ AllIn(SubSeq(r, i + 1, j), Range(LowerLetters) \cup {"."})
    /\ AllIn(SubSeq(r, j + 1, Len(r)), WordChars \cup {"/", " ", ".", "-"})

WebsiteRegexTest(s) ==
  \/ WebsiteRestTest(s)
  \/ \E p \in {<<"h", "t", "t", "p", ":", "/", "/">>,
               <<"h", "t", "t", "p", "s", ":", "/", "/">>} :
       StartsWith(s, p) /\ WebsiteRestTest(Slice(s, Len(p)))

(***************************************************************************)
(* JavaScript objects and nullable values.                                 *)
(***************************************************************************)
null == <<>>

Some(v) == <<v>>

\* {...a, ...b}: the keys of both, b's value where both have the key
Spread(a, b) == b @@ a

\* obj[key] || "" for a string-valued key that may be absent
OrEmpty(obj, key) == IF key \in DOMAIN obj THEN obj[key] ELSE <<>>

\* a variant without the fallback
OrElseNothing(obj, key, fallback) == OrEmpty(obj, key)

\* obj[key] || fallback for a string-valued key that may be absent
OrElse(obj, key, fallback) ==
  IF key \in DOMAIN obj /\ obj[key] # <<>> THEN obj[key] ELSE fallback

\* Math.max(...[]) is -Infinity, and -Infinity + 1 is -Infinity
NegInfinity == -1000

MathMax(S) ==
  IF S = {} THEN NegInfinity ELSE CHOOSE m \in S : \A x \in S : x <= m

PlusOne(x) == IF x = NegInfinity THEN NegInfinity ELSE x + 1

\* a JavaScript number used as a condition: null and 0 are falsy
Truthy(n) == n # null /\ n[1] # 0

(***************************************************************************)
(* The inputs: the response of the remote endpoint, the values typed into  *)
(* the form fields and the search terms.                                   *)
(***************************************************************************)
Fields == {"name", "email", "phone", "street", "city", "company.name", "website"}

GoodEmail == <<"a", "@", "b", ".", "c", "o">>

GoodPhone == <<"1", "2", "3", "-", "4", "5", "6", " ", "7", "8", "9", "0">>

FetchedUser(id, name, street, companyName) ==
  [id |-> id, name |-> name, email |-> GoodEmail, phone |-> GoodPhone,
   username |-> name, website |-> <<"a", ".", "i", "o">>,
   company |-> [name |-> companyName, bs |-> <<"b", "s">>],
   address |-> [street |-> street, city |-> <<"R", "o", "m", "e">>,
                zipcode |-> <<"9", "0">>]]

\* responses whose records have distinct identifiers
Responses ==
  { <<FetchedUser(7, <<"A", "n", "n", "a">>, <<>>, <<"I", "n", "c">>)>> }

TypedValues(field) ==
  CASE field = "name" ->
         { <<>>, <<"A", "l">>, <<"B", "o", "b">>,
           <<"J", "a", "n", "e", " ", "\t", "D", "o", "e">> }
    [] field = "email" -> { <<"a", "@", "b">>, <<"a", "@", "b", ".", "c">> }
    [] field = "phone" -> { <<"1", "2", "3", "4", "5">>, <<"+">> \o GoodPhone }
    [] field = "street" -> { <<>>, <<"A", "s", "h">> }
    [] field = "city" -> { <<"O", "s", "l", "o">> }
    [] field = "company.name" -> { <<>>, <<"A", "c">>, <<"L", "t", "d">> }
    [] field = "website" ->
         { <<>>, <<"x">>, <<"h", "t", "t", "p", ":", "/", "/", "b", ".", "i", "o">> }

\* the two fields typed into while the other events of the page interleave:
\* one with a length rule, one that is required
MainFields == {"name", "street"}

SearchTerms == { <<>>, <<"a", "N">> }

(***************************************************************************)
(* The component's state (useState, lines 38-47) and the record of the     *)
(* run: the last event, whether the fetch ended in its catch block,        *)
(* whether the last event emptied an error map that held a message, the    *)
(* record set as it was when the session was opened, and the counters that *)
(* bound the exploration.                                                  *)
(***************************************************************************)
VARIABLES users, loading, searchTerm, formMode, currentUser, formData,
          formErrors, deleteConfirmation,
          lastEvent, loadFailed, clearedErrors, usersAtOpen, nSessions,
          nChanges

state == <<users, loading, searchTerm, formMode, currentUser, formData,
           formErrors, deleteConfirmation>>

vars == <<users, loading, searchTerm, formMode, currentUser, formData,
          formErrors, deleteConfirmation,
          lastEvent, loadFailed, clearedErrors, usersAtOpen, nSessions,
          nChanges>>

\* {} as an object
EmptyObject == [k \in {} |-> <<>>]

Init ==
  /\ users = <<>>
  /\ loading = TRUE
  /\ searchTerm = <<>>
  /\ formMode = "null"
  /\ currentUser = null
  /\ formData = EmptyObject
  /\ formErrors = EmptyObject
  /\ deleteConfirmation = null
  /\ lastEvent = "mount"
  /\ loadFailed = FALSE
  /\ clearedErrors = FALSE
  /\ usersAtOpen = <<>>
  /\ nSessions = 0
  /\ nChanges = 0

(***************************************************************************)
(* Rendering.                                                              *)
(***************************************************************************)
\* the predicate of filteredUsers; user.name.toLowerCase() throws a
\* TypeError when the record has no name
Matches(user, term) == includes(toLowerCase(user.name), toLowerCase(term))

NameMissing(us) == \E i \in 1..Len(us) : "name" \notin DOMAIN us[i]

\* users.filter(...): the records kept, in order
RECURSIVE FilterFrom(_, _, _)
FilterFrom(us, term, i) ==
  IF i > Len(us) THEN <<>>
  ELSE IF Matches(us[i], term)
       THEN <<us[i]>> \o FilterFrom(us, term, i + 1)
       ELSE FilterFrom(us, term, i + 1)

\* the value of filteredUsers: the rows kept, or threw when computing it
\* throws
filteredUsers ==
  IF NameMissing(users)
  THEN [threw |-> TRUE, rows |-> <<>>]
  ELSE [threw |-> FALSE, rows |-> FilterFrom(users, searchTerm, 1)]

\* the render function returns the page: the fetch has settled and
\* filteredUsers did not throw (an exception while rendering unmounts the
\* component, and no callback is reachable any more)
PageRendered == ~loading /\ ~NameMissing(users)

RowRendered(i) == PageRendered /\ Matches(users[i], searchTerm)

FormRendered == PageRendered /\ formMode # "null"

DeleteModalRendered == PageRendered /\ Truthy(deleteConfirmation)

\* the record of the record set at the opening of the session is kept
\* while the session is open and in the state its cancellation leaves
KeptAtOpen == IF formMode = "null" THEN <<>> ELSE usersAtOpen

(***************************************************************************)
(* fetchUsers (lines 53-66): the one asynchronous step.  While it is       *)
(* pending the component renders the spinner only.                         *)
(***************************************************************************)
FetchResolved(data) ==
  /\ loading
  /\ users' = data
  /\ loading' = FALSE
  /\ clearedErrors' = FALSE
  /\ lastEvent' = "fetched"
  /\ UNCHANGED <<loadFailed, searchTerm, formMode, currentUser, formData, formErrors,
                 deleteConfirmation, nSessions, nChanges,
                 usersAtOpen>>

\* a variant of the catch block without its setLoading(false)
FetchFailedKeepsLoading ==
  /\ loading
  /\ clearedErrors' = FALSE
  /\ lastEvent' = "fetch failed"
  /\ loadFailed' = TRUE
  /\ UNCHANGED <<users, loading, searchTerm, formMode, currentUser, formData,
                 formErrors, deleteConfirmation, nSessions, nChanges,
                 usersAtOpen>>

FetchFailed ==
  /\ loading
  /\ loading' = FALSE
  /\ clearedErrors' = FALSE
  /\ lastEvent' = "fetch failed"
  /\ loadFailed' = TRUE
  /\ UNCHANGED <<users, searchTerm, formMode, currentUser, formData, formErrors,
                 deleteConfirmation, nSessions, nChanges,
                 usersAtOpen>>

(***************************************************************************)
(* The search box (lines 194-211).                                         *)
(***************************************************************************)
SetSearchTerm(term) ==
  /\ PageRendered
  /\ term # searchTerm
  /\ searchTerm' = term
  /\ clearedErrors' = FALSE
  /\ lastEvent' = "search"
  /\ usersAtOpen' = KeptAtOpen
  /\ UNCHANGED <<loadFailed, users, loading, formMode, currentUser, formData, formErrors,
                 deleteConfirmation, nSessions, nChanges>>

(***************************************************************************)
(* Opening a session: the Create User button (lines 214-218) and the edit  *)
(* button of a row (lines 271-281).                                        *)
(***************************************************************************)
\* a variant of the Create User button without its setFormErrors({})
OpenCreateKeepsErrors ==
  /\ PageRendered
  /\ nSessions < MaxSessions
  /\ Len(users) < MaxUsers
  /\ formMode' = "create"
  /\ formData' = EmptyObject
  /\ clearedErrors' = FALSE
  /\ lastEvent' = "open create"
  /\ usersAtOpen' = users
  /\ nSessions' = nSessions + 1
  /\ UNCHANGED <<loadFailed, users, loading, searchTerm, currentUser,
                 formErrors, deleteConfirmation, nChanges>>

OpenCreate ==
  /\ PageRendered
  /\ nSessions < MaxSessions
  /\ Len(users) < MaxUsers
  /\ formMode' = "create"
  /\ formData' = EmptyObject
  /\ formErrors' = EmptyObject
  /\ clearedErrors' = (\E k \in DOMAIN formErrors : formErrors[k] # "")
  /\ lastEvent' = "open create"
  /\ usersAtOpen' = users
  /\ nSessions' = nSessions + 1
  /\ UNCHANGED <<loadFailed, users, loading, searchTerm, currentUser, deleteConfirmation,
                 nChanges>>

\* {...user, "company.name": ..., street: ..., city: ...}
Flatten(user) ==
  Spread(user, [k \in {"company.name", "street", "city"} |->
                  CASE k = "company.name" -> user.company.name
                    [] k = "street" -> user.address.street
                    [] k = "city" -> user.address.city])

OpenEdit(i) ==
  /\ RowRendered(i)
  /\ nSessions < MaxSessions
  /\ formMode' = "edit"
  /\ currentUser' = Some(users[i])
  /\ formData' = Flatten(users[i])
  /\ formErrors' = EmptyObject
  /\ clearedErrors' = (\E k \in DOMAIN formErrors : formErrors[k] # "")
  /\ lastEvent' = "open edit"
  /\ usersAtOpen' = users
  /\ nSessions' = nSessions + 1
  /\ UNCHANGED <<loadFailed, users, loading, searchTerm, deleteConfirmation, nChanges>>

(***************************************************************************)
(* handleInputChange and validateField (lines 68-108).                     *)
(***************************************************************************)
\* a variant whose length rules also reject three characters and whose
\* company rule does not exempt the empty value
validateFieldStrict(name, value) ==
  CASE name = "name" ->
         IF Len(value) <= 3 THEN "Name must be at least 3 characters long" ELSE ""
    [] name = "company.name" ->
         IF Len(value) <= 3
         THEN "Company name must be at least 3 characters long" ELSE ""
    [] OTHER -> ""

\* the message validateField stores for the field; "" when the value passes
validateField(name, value) ==
  CASE name = "name" ->
         IF Len(value) < 3 THEN "Name must be at least 3 characters long" ELSE ""
    [] name = "email" ->
         IF ~EmailRegexTest(value) THEN "Invalid email format" ELSE ""
    [] name = "phone" ->
         IF ~PhoneRegexTest(value) THEN "Invalid phone number" ELSE ""
    [] name = "street" ->
         IF value = <<>> THEN "Street is required" ELSE ""
    [] name = "city" ->
         IF value = <<>> THEN "City is required" ELSE ""
    [] name = "company.name" ->
         IF value # <<>> /\ Len(value) < 3
         THEN "Company name must be at least 3 characters long" ELSE ""
    [] name = "website" ->
         IF value # <<>> /\ ~WebsiteRegexTest(value)
         THEN "Invalid website URL" ELSE ""
    [] OTHER -> ""

\* a variant that drops the spread of prev: {[name]: v}
SetKeyAlone(prev, name, v) == [k \in {name} |-> v]

\* {...prev, [name]: v}
SetKey(prev, name, v) == Spread(prev, [k \in {name} |-> v])

\* a variant that validates the value the draft held before the change
handleInputChangeStale(name, value) ==
  /\ FormRendered
  /\ nChanges < MaxChanges
  /\ formData' = SetKey(formData, name, value)
  /\ formErrors' = SetKey(formErrors, name,
                          validateField(name, OrEmpty(formData, name)))
  /\ clearedErrors' = FALSE
  /\ lastEvent' = "change"
  /\ nChanges' = nChanges + 1
  /\ UNCHANGED <<loadFailed, users, loading, searchTerm, formMode, currentUser,
                 deleteConfirmation, nSessions, usersAtOpen>>

handleInputChange(name, value) ==
  /\ FormRendered
  /\ nChanges < MaxChanges
  /\ formData' = SetKey(formData, name, value)
  /\ formErrors' = SetKey(formErrors, name, validateField(name, value))
  /\ clearedErrors' = FALSE
  /\ lastEvent' = "change"
  /\ nChanges' = nChanges + 1
  /\ UNCHANGED <<loadFailed, users, loading, searchTerm, formMode, currentUser,
                 deleteConfirmation, nSessions,
                 usersAtOpen>>

(***************************************************************************)
(* handleSubmit (lines 110-150).                                           *)
(***************************************************************************)
\* a variant that also counts a required field without an entry as an error
HasErrorsOrUntouched(errors) ==
  \/ \E k \in DOMAIN errors : errors[k] # ""
  \/ \E k \in {"name", "email", "phone", "street", "city"} : k \notin DOMAIN errors

\* a variant that tests every() where the code tests some()
HasErrorsEvery(errors) ==
  DOMAIN errors # {} /\ \A k \in DOMAIN errors : errors[k] # ""

\* Object.values(formErrors).some((error) => error)
HasErrors(errors) == \E k \in DOMAIN errors : errors[k] # ""

USER == <<"U", "S", "E", "R", "-">>

\* `USER-${formData.name?.toLowerCase().replace(/\s+/g, "-")}`
Username(data) ==
  IF "name" \in DOMAIN data
  THEN USER \o ReplaceWhitespaceRuns(toLowerCase(data.name))
  ELSE USER \o <<"u", "n", "d", "e", "f", "i", "n", "e", "d">>

\* a variant that numbers the records by their count
NextIdByCount(us) == Len(us) + 1

\* Math.max(...users.map((u) => u.id)) + 1
NextId(us) == PlusOne(MathMax({us[i].id : i \in 1..Len(us)}))

NewUser(data, us) ==
  Spread(data,
         [id |-> NextId(us),
          username |-> Username(data),
          company |-> [name |-> OrEmpty(data, "company.name")],
          address |-> [street |-> OrEmpty(data, "street"),
                       city |-> OrEmpty(data, "city")]])

\* a variant that derives the login handle again from the draft's name
UpdatedUserNewHandle(user, data) ==
  Spread(Spread(user, data),
         [username |-> Username(data),
          company |-> Spread(user.company,
                             [name |-> OrElse(data, "company.name", user.company.name)]),
          address |-> Spread(user.address,
                             [street |-> OrElse(data, "street", user.address.street),
                              city |-> OrElse(data, "city", user.address.city)])])

UpdatedUser(user, data) ==
  Spread(Spread(user, data),
         [company |-> Spread(user.company,
                             [name |-> OrElse(data, "company.name", user.company.name)]),
          address |-> Spread(user.address,
                             [street |-> OrElse(data, "street", user.address.street),
                              city |-> OrElse(data, "city", user.address.city)])])

UpdatedUsers(us, current, data) ==
  [i \in 1..Len(us) |->
     IF us[i].id = current.id THEN UpdatedUser(us[i], data) ELSE us[i]]

handleSubmit ==
  /\ FormRendered
  /\ IF HasErrors(formErrors)
     THEN /\ lastEvent' = "submit rejected"
          /\ UNCHANGED <<users, formMode, currentUser, formData>>
     ELSE /\ IF formMode = "create"
             THEN /\ users' = Append(users, NewUser(formData, users))
                  /\ lastEvent' = "created"
             ELSE IF formMode = "edit" /\ currentUser # null
             THEN /\ users' = UpdatedUsers(users, currentUser[1], formData)
                  /\ lastEvent' = "updated"
             ELSE /\ users' = users
                  /\ lastEvent' = "closed"
          /\ formMode' = "null"
          /\ currentUser' = null
          /\ formData' = EmptyObject
  /\ clearedErrors' = FALSE
  /\ usersAtOpen' = IF HasErrors(formErrors) THEN usersAtOpen ELSE <<>>
  /\ UNCHANGED <<loadFailed, loading, searchTerm, formErrors, deleteConfirmation,
                 nSessions, nChanges>>

\* a variant of the Cancel button that closes the form and keeps the draft
CancelFormKeepsDraft ==
  /\ FormRendered
  /\ formMode' = "null"
  /\ currentUser' = null
  /\ clearedErrors' = FALSE
  /\ lastEvent' = "cancelled"
  /\ UNCHANGED <<loadFailed, users, loading, searchTerm, formData, formErrors,
                 deleteConfirmation, usersAtOpen, nSessions, nChanges>>

\* a variant of the Cancel button that commits the draft of an edit session
CancelFormCommits ==
  /\ FormRendered
  /\ users' = IF formMode = "edit" /\ currentUser # null
              THEN UpdatedUsers(users, currentUser[1], formData)
              ELSE users
  /\ formMode' = "null"
  /\ currentUser' = null
  /\ formData' = EmptyObject
  /\ clearedErrors' = FALSE
  /\ lastEvent' = "cancelled"
  /\ UNCHANGED <<loadFailed, loading, searchTerm, formErrors, deleteConfirmation,
                 usersAtOpen, nSessions, nChanges>>

\* the form's Cancel button (lines 359-369)
CancelForm ==
  /\ FormRendered
  /\ formMode' = "null"
  /\ currentUser' = null
  /\ formData' = EmptyObject
  /\ clearedErrors' = FALSE
  /\ lastEvent' = "cancelled"
  /\ UNCHANGED <<loadFailed, users, loading, searchTerm, formErrors, deleteConfirmation, nSessions, nChanges,
                 usersAtOpen>>

(***************************************************************************)
(* The deletion gate: the delete button of a row (lines 286-291), the      *)
(* modal's Cancel (lines 406-411) and Delete (lines 412-417, handleDelete  *)
(* lines 152-156).                                                         *)
(***************************************************************************)
\* a variant of the delete button that removes the record without asking
AskDeleteAtOnce(i) ==
  /\ RowRendered(i)
  /\ users' = SelectSeq(users, LAMBDA user : user.id # users[i].id)
  /\ clearedErrors' = FALSE
  /\ lastEvent' = "ask delete"
  /\ usersAtOpen' = KeptAtOpen
  /\ UNCHANGED <<loadFailed, loading, searchTerm, formMode, currentUser,
                 formData, formErrors, deleteConfirmation, nSessions, nChanges>>

AskDelete(i) ==
  /\ RowRendered(i)
  /\ deleteConfirmation' = Some(users[i].id)
  /\ clearedErrors' = FALSE
  /\ lastEvent' = "ask delete"
  /\ usersAtOpen' = KeptAtOpen
  /\ UNCHANGED <<loadFailed, users, loading, searchTerm, formMode, currentUser, formData,
                 formErrors, nSessions, nChanges>>

CancelDelete ==
  /\ DeleteModalRendered
  /\ deleteConfirmation' = null
  /\ clearedErrors' = FALSE
  /\ lastEvent' = "delete cancelled"
  /\ usersAtOpen' = KeptAtOpen
  /\ UNCHANGED <<loadFailed, users, loading, searchTerm, formMode, currentUser, formData,
                 formErrors, nSessions, nChanges>>

\* users.filter((user) => user.id !== id)
WithoutId(us, id) == SelectSeq(us, LAMBDA user : user.id # id)

\* a variant that leaves the confirmation target set
handleDeleteKeepsTarget ==
  /\ DeleteModalRendered
  /\ users' = WithoutId(users, deleteConfirmation[1])
  /\ clearedErrors' = FALSE
  /\ lastEvent' = "deleted"
  /\ usersAtOpen' = KeptAtOpen
  /\ UNCHANGED <<loadFailed, loading, searchTerm, formMode, currentUser, formData,
                 formErrors, deleteConfirmation, nSessions, nChanges>>

handleDelete ==
  /\ DeleteModalRendered
  /\ users' = WithoutId(users, deleteConfirmation[1])
  /\ deleteConfirmation' = null
  /\ clearedErrors' = FALSE
  /\ lastEvent' = "deleted"
  /\ usersAtOpen' = KeptAtOpen
  /\ UNCHANGED <<loadFailed, loading, searchTerm, formMode, currentUser, formData,
                 formErrors, nSessions, nChanges>>

\* every event of the page, the form typed into MainFields
Next ==
  \/ \E data \in Responses : FetchResolved(data)
  \/ FetchFailed
  \/ \E term \in SearchTerms : SetSearchTerm(term)
  \/ OpenCreate
  \/ \E i \in 1..Len(users) : OpenEdit(i)
  \/ \E name \in MainFields : \E value \in TypedValues(name) :
       handleInputChange(name, value)
  \/ handleSubmit
  \/ CancelForm
  \/ \E i \in 1..Len(users) : AskDelete(i)
  \/ CancelDelete
  \/ handleDelete

Spec == Init /\ [][Next]_vars

\* the form alone (no search, no deletion), typed into every one of its fields
NextForm ==
  \/ \E data \in Responses : FetchResolved(data)
  \/ FetchFailed
  \/ OpenCreate
  \/ \E i \in 1..Len(users) : OpenEdit(i)
  \/ \E name \in Fields : \E value \in TypedValues(name) :
       handleInputChange(name, value)
  \/ handleSubmit
  \/ CancelForm

SpecForm == Init /\ [][NextForm]_vars

\* the promise of fetchUsers settles: its try block or its catch block runs
FetchSettles ==
  \/ \E data \in Responses : FetchResolved(data)
  \/ FetchFailed

\* the form alone, with a fetch that is not left pending for ever
SpecLive == Init /\ [][NextForm]_vars /\ WF_vars(FetchSettles)

(***************************************************************************)
(* Properties.                                                             *)
(***************************************************************************)
Ids(us) == {us[i].id : i \in 1..Len(us)}

HasId(us, id) == \E i \in 1..Len(us) : us[i].id = id

\* the events that are a submit of the form
SubmitEvents == {"submit rejected", "created", "updated", "closed"}

\* C1: no two records of the record set have the same identifier.
C1_UniqueIdentifiers ==
  \A i \in 1..Len(users) : \A j \in 1..Len(users) :
    i # j => users[i].id # users[j].id

\* C2: while the deletion gate is pending on an identifier, a record with
\* that identifier is in the record set, whatever the session does meanwhile.
C2_PendingTargetExists ==
  deleteConfirmation # null => HasId(users, deleteConfirmation[1])

\* the gate is pending while a session commits a created or an edited record
C2_Witness ==
  /\ deleteConfirmation # null
  /\ lastEvent \in {"created", "updated"}
  /\ HasId(users, deleteConfirmation[1])

\* C3: a submit while the error map holds a non-empty message is rejected:
\* the mode, the target record, the draft and the record set stay as they are.
C3_SubmitGuard ==
  [][(/\ lastEvent' \in SubmitEvents
      /\ \E k \in DOMAIN formErrors : formErrors[k] # "")
     => /\ lastEvent' = "submit rejected"
        /\ formMode' = formMode
        /\ currentUser' = currentUser
        /\ formData' = formData
        /\ users' = users]_vars

\* a submit was rejected and the session is still open on its draft
C3_Witness ==
  /\ lastEvent = "submit rejected"
  /\ formMode \in {"create", "edit"}
  /\ \E k \in DOMAIN formErrors : formErrors[k] # ""
  /\ \E k \in DOMAIN formErrors : formErrors[k] = ""

\* C4: on a non-empty record set an accepted submit of a create session
\* appends one record whose identifier is the largest existing identifier
\* plus 1, keeps the existing records and their order, and closes the session.
C4_CreateAppends ==
  [][(lastEvent' = "created" /\ users # <<>>)
     => /\ Len(users') = Len(users) + 1
        /\ SubSeq(users', 1, Len(users)) = users
        /\ \E m \in Ids(users) :
             /\ \A x \in Ids(users) : x <= m
             /\ users'[Len(users')].id = PlusOne(m)
        /\ formMode' = "null"
        /\ currentUser' = null
        /\ formData' = EmptyObject]_vars

\* a record was created on top of a fetched one, after another was deleted
\* or created: its identifier is not the count of the records plus 1
C4_Witness ==
  /\ lastEvent = "created"
  /\ formMode = "null"
  /\ Len(users) >= 2
  /\ users[Len(users)].id > Len(users)
  /\ users[Len(users)].id = users[Len(users) - 1].id + 1

\* the nested value an accepted edit leaves, as the claim states it
MergedValue(draft, key, prior) ==
  IF key \in DOMAIN draft /\ draft[key] # <<>> THEN draft[key] ELSE prior

\* C5: after an accepted submit of an edit session, the street, the city
\* and the company name of the edited record are the draft's value where
\* that is non-empty and the record's prior value where it is empty.
C5_EditMerge ==
  [][lastEvent' = "updated"
     => \A i \in 1..Len(users) :
          users[i].id = currentUser[1].id
          => /\ users'[i].address.street =
                  MergedValue(formData, "street", users[i].address.street)
             /\ users'[i].address.city =
                  MergedValue(formData, "city", users[i].address.city)
             /\ users'[i].company.name =
                  MergedValue(formData, "company.name", users[i].company.name)]_vars

\* an edit was accepted whose draft had an emptied company name, which the
\* record kept, a street left blank, which the record kept blank, and a new
\* city, which the record took
C5_Witness ==
  /\ lastEvent = "updated"
  /\ \E i \in 1..Len(users) :
       /\ "company.name" \in DOMAIN users[i]
       /\ users[i]["company.name"] = <<>>
       /\ users[i].company.name = <<"I", "n", "c">>
       /\ users[i].street = <<>>
       /\ users[i].address.street = <<>>
       /\ users[i].address.city = <<"O", "s", "l", "o">>

\* C7: cancelling an open session after field changes closes the session,
\* empties the draft, clears the target record and leaves the record set as
\* it was when the session was opened.
C7_CancelDiscards ==
  lastEvent = "cancelled"
  => /\ formMode = "null"
     /\ formData = EmptyObject
     /\ currentUser = null
     /\ users = usersAtOpen

\* an edit session was cancelled after two field changes, one of them invalid
C7_Witness ==
  /\ lastEvent = "cancelled"
  /\ users # <<>>
  /\ users = usersAtOpen
  /\ Cardinality(DOMAIN formErrors) = 2
  /\ \E k \in DOMAIN formErrors : formErrors[k] # ""

\* C6, as stated: confirming a pending deletion removes exactly one record,
\* the one with the pending identifier, leaves the others unchanged and in
\* order and returns the gate to idle; cancelling returns the gate to idle
\* and leaves the record set unchanged.
C6_DeleteExactlyTheRecord ==
  [][/\ lastEvent' = "deleted"
        => /\ deleteConfirmation # null
           /\ Len(users') = Len(users) - 1
           /\ ~HasId(users', deleteConfirmation[1])
           /\ \E i \in 1..Len(users) :
                /\ users[i].id = deleteConfirmation[1]
                /\ users' = SubSeq(users, 1, i - 1)
                              \o SubSeq(users, i + 1, Len(users))
           /\ deleteConfirmation' = null
     /\ lastEvent' = "delete cancelled"
        => /\ users' = users
           /\ deleteConfirmation' = null]_vars

\* C8, as stated: the login handle of a record created by an accepted
\* submit is "USER-" followed by the draft's name, lowercased, with each
\* maximal run of whitespace replaced by one hyphen.
C8_LoginHandle ==
  [][lastEvent' = "created"
     => /\ "name" \in DOMAIN formData
        /\ users'[Len(users')].username =
             <<"U", "S", "E", "R", "-">>
               \o ReplaceWhitespaceRuns(toLowerCase(formData.name))]_vars

\* term occurs in name as a substring when case is ignored
ContainsIgnoringCase(name, term) ==
  \E k \in 0..(Len(name) - Len(term)) :
    \A j \in 1..Len(term) :
      ToLowerChar(name[k + j]) = ToLowerChar(term[j])

\* C9, as stated: once the records are shown, the list view is the
\* subsequence of the record set whose display names contain the search
\* term, case ignored; the empty term yields the whole record set.
C9_ListView ==
  ~loading
  => /\ ~filteredUsers.threw
     /\ filteredUsers.rows =
          SelectSeq(users, LAMBDA user : ContainsIgnoringCase(user.name, searchTerm))
     /\ searchTerm = <<>> => filteredUsers.rows = users

\* C10: the error stored for the name field is non-empty exactly when the
\* entered value has fewer than 3 characters; the error stored for the
\* company-name field is non-empty exactly when the entered value is
\* non-empty and has fewer than 3 characters.
C10_LengthRules ==
  formMode # "null"
  => /\ "name" \in DOMAIN formErrors
        => (formErrors.name # "" <=> Len(formData.name) < 3)
     /\ "company.name" \in DOMAIN formErrors
        => (formErrors["company.name"] # ""
              <=> /\ formData["company.name"] # <<>>
                  /\ Len(formData["company.name"]) < 3)

\* a name of exactly three characters and an emptied company name were
\* entered, and neither has an error
C10_Witness ==
  /\ lastEvent = "change"
  /\ DOMAIN formErrors = {"name", "company.name"}
  /\ Len(formData.name) = 3
  /\ formErrors.name = ""
  /\ formData["company.name"] = <<>>
  /\ formErrors["company.name"] = ""

\* C11: whenever the session is closed the draft is the empty draft, and a
\* step that writes something into the draft is a field change or the
\* seeding of an edit session, with the session open after the step.
C11_DraftOnlyInSession ==
  /\ [](formMode = "null" => formData = EmptyObject)
  /\ [][(formData' # formData /\ formData' # EmptyObject)
        => /\ lastEvent' \in {"change", "open edit"}
           /\ formMode' # "null"]_vars

\* a session whose draft had been written by two field changes is closed,
\* and the draft is empty
C11_Witness ==
  /\ formMode = "null"
  /\ formData = EmptyObject
  /\ lastEvent \in {"cancelled", "created", "updated"}
  /\ Cardinality(DOMAIN formErrors) = 2

\* C12: the fetch settles and the loading state ends, whether the fetch
\* resolved or failed; a failed fetch leaves the record set empty and the
\* Create User button usable, and the create session opened after a failed
\* fetch can be submitted.
C12_LoadEnds ==
  /\ <>(~loading)
  /\ [](lastEvent \in {"fetched", "fetch failed"} => ~loading)
  /\ [](lastEvent = "fetch failed" => (users = <<>> /\ ENABLED OpenCreate))
  /\ []((loadFailed /\ lastEvent = "open create") => ENABLED handleSubmit)

\* after a failed fetch a create session was opened, typed into and
\* submitted, and its record is the only one
C12_Witness ==
  /\ loadFailed
  /\ ~loading
  /\ lastEvent = "created"
  /\ Len(users) = 1
  /\ "name" \in DOMAIN users[1]

\* C13: a submit of a create session in which no field was changed since
\* it was opened is accepted: it appends a record, which has none of the
\* required fields, and closes the session.
C13_UntouchedSubmitAccepted ==
  [][(lastEvent' \in SubmitEvents /\ formMode = "create" /\ formData = EmptyObject)
     => /\ lastEvent' = "created"
        /\ Len(users') = Len(users) + 1
        /\ SubSeq(users', 1, Len(users)) = users
        /\ \A f \in {"name", "email", "phone", "street", "city"} :
             f \notin DOMAIN users'[Len(users')]
        /\ formMode' = "null"]_vars

\* an untouched create session was submitted on top of the fetched record:
\* the new record has the four keys handleSubmit writes and no others
C13_Witness ==
  /\ lastEvent = "created"
  /\ formMode = "null"
  /\ Len(users) = 2
  /\ DOMAIN users[2] = {"id", "username", "company", "address"}
  /\ formErrors = EmptyObject

\* the objects a and b have the same keys and values except possibly at f
SameExceptAt(a, b, f) ==
  /\ DOMAIN a \ {f} = DOMAIN b \ {f}
  /\ \A k \in DOMAIN a \ {f} : a[k] = b[k]

\* C14: a field change writes the entry of one field f in the draft and in
\* the error map; the entries of every other field, the session mode, the
\* deletion gate and the record set are unchanged.
C14_ChangeTouchesOneField ==
  [][lastEvent' = "change"
     => /\ \E f \in Fields :
             /\ f \in DOMAIN formData'
             /\ f \in DOMAIN formErrors'
             /\ SameExceptAt(formData, formData', f)
             /\ SameExceptAt(formErrors, formErrors', f)
        /\ formMode' = formMode
        /\ currentUser' = currentUser
        /\ deleteConfirmation' = deleteConfirmation
        /\ users' = users]_vars

\* while the deletion gate is pending, in an edit session, a valid street
\* was entered after an invalid name: the name's error is still there
C14_Witness ==
  /\ lastEvent = "change"
  /\ formMode = "edit"
  /\ deleteConfirmation # null
  /\ DOMAIN formErrors = {"name", "street"}
  /\ formErrors.name # ""
  /\ formErrors.street = ""
  /\ formData.street # <<>>
  /\ "email" \in DOMAIN formData

\* C15: once the load has ended, a step that changes the record set is an
\* accepted create submit, which appends one record, an accepted edit
\* submit, which keeps the number of records, or a confirmed deletion,
\* which removes the records of one identifier and keeps the rest in order;
\* no other event changes the record set.
C15_RecordSetWriters ==
  [][(~loading /\ users' # users)
     => \/ /\ lastEvent' = "created"
           /\ Len(users') = Len(users) + 1
           /\ SubSeq(users', 1, Len(users)) = users
        \/ /\ lastEvent' = "updated"
           /\ Len(users') = Len(users)
           /\ \A i \in 1..Len(users) : users'[i].id = users[i].id
        \/ /\ lastEvent' = "deleted"
           /\ Len(users') < Len(users)
           /\ \E id \in Ids(users) :
                users' = SelectSeq(users, LAMBDA user : user.id # id)]_vars

\* a record was created, then edited, and then the fetched record deleted
C15_Witness ==
  /\ lastEvent = "deleted"
  /\ Len(users) = 1
  /\ users[1].id = 8
  /\ "company.name" \in DOMAIN users[1]

\* C16: opening a create or an edit session leaves the error map without
\* entries, whatever errors an earlier session left in it, and a submit is
\* rejected only over a message that the validator gives for a value of
\* the current draft.
C16_OpenClearsErrors ==
  [][/\ lastEvent' \in {"open create", "open edit"} => formErrors' = EmptyObject
     /\ lastEvent' = "submit rejected"
        => \E k \in DOMAIN formErrors :
             /\ formErrors[k] # ""
             /\ k \in DOMAIN formData
             /\ formErrors[k] = validateField(k, formData[k])]_vars

\* an edit session was opened over an error map that held a message, and
\* the map is empty
C16_Witness ==
  /\ lastEvent = "open edit"
  /\ clearedErrors
  /\ formMode = "edit"
  /\ formErrors = EmptyObject

\* C17: while a session is open, every entry of the error map is the
\* validator's result for the value the draft holds for that field.
C17_ErrorsMatchDraft ==
  formMode # "null"
  => \A k \in DOMAIN formErrors :
       /\ k \in DOMAIN formData
       /\ formErrors[k] = validateField(k, formData[k])

\* in an edit session an invalid e-mail address and then a valid web site
\* were entered: one entry is a message, the other is empty
C17_Witness ==
  /\ formMode = "edit"
  /\ lastEvent = "change"
  /\ DOMAIN formErrors = {"email", "website"}
  /\ formErrors.email = "Invalid email format"
  /\ formErrors.website = ""
  /\ formData.website # <<>>

\* C18, as stated: an accepted submit of an edit session keeps the number of
\* records and leaves every record but the one the session was opened on
\* exactly as it was.
C18_EditChangesOneRecord ==
  [][lastEvent' = "updated"
     => /\ Len(users') = Len(users)
        /\ Cardinality({j \in 1..Len(users) : users'[j] # users[j]}) <= 1
        /\ \A j \in 1..Len(users) :
             users'[j] # users[j] => users[j].id = currentUser[1].id]_vars

\* C19: an accepted submit of an edit session leaves the identifier and the
\* login handle of the record the session was opened on as they were,
\* whatever was changed in the session.
C19_EditKeepsIdAndHandle ==
  [][lastEvent' = "updated"
     => \A i \in 1..Len(users) :
          users[i] = currentUser[1]
          => /\ users'[i].id = users[i].id
             /\ users'[i].username = users[i].username]_vars

\* the fetched record was renamed by an edit session: it has the new name,
\* its identifier and the login handle it was fetched with
C19_Witness ==
  /\ lastEvent = "updated"
  /\ \E i \in 1..Len(users) :
       /\ users[i].id = 7
       /\ users[i].name = <<"B", "o", "b">>
       /\ users[i].username = <<"A", "n", "n", "a">>

\* C20, as stated: while the session is an edit session a record with the
\* target's identifier is in the record set, and an accepted submit of an
\* edit session finds a record with that identifier to rewrite.
C20_EditTargetExists ==
  /\ []((formMode = "edit" /\ currentUser # null)
        => HasId(users, currentUser[1].id))
  /\ [][lastEvent' = "updated" => HasId(users, currentUser[1].id)]_vars

====
